---------------------------- MODULE Spec2Model ----------------------------
(***************************************************************************)
(* A model of pybo/solvers/bayesopt.py: the registry builder _make_dict    *)
(* and the meta solver solve_bayesopt.                                     *)
(*                                                                         *)
(* Two specifications share the module:                                    *)
(*   Spec     one call of solve_bayesopt, one statement per step;          *)
(*   RegSpec  one call of _make_dict, one exported name per step.          *)
(*                                                                         *)
(* Trace slots are 0-based in the source and 1-based here: slot j of the   *)
(* source is info[j + 1].                                                  *)
(***************************************************************************)
EXTENDS Integers, Sequences, FiniteSets, TLC

\* ------------------------------------------------------------------ bounds
MaxT == 6          \* largest horizon T
MaxK == 2          \* largest batch the initializer returns
MaxN0 == 3         \* largest observation count of a caller-supplied model
MaxNames == 2      \* largest length of module.__all__
MaxNameLen == 2    \* longest exported name

\* ------------------------------------------------------------ the values
NaN == -1                      \* np.nan, the "not yet available" marker
Zero == 0                      \* the value np.zeros fills a field with
None == [none |-> TRUE]        \* Python's None, where a record may stand
NoError == "none"              \* no exception has been raised
NoResult == <<>>               \* nothing returned; a returned trace tr is <<tr>>
Points == {1, 2}               \* the query points a component may return

\* the objective f is deterministic per call; its value is never NaN
F(p) == 10 + p
\* the clean oracle f.get_f
GetF(p) == 20 + p

\* the keys of the four registries that solve_bayesopt looks names up in
POLICIES == {"ei"}
INITIALIZERS == {"middle"}
SOLVERS == {"lbfgs"}
RECOMMENDERS == {"latent"}

\* the names a caller may pass: the default of each parameter and a name
\* that no registry holds
PolicyNames == {"ei", "bogus"}
InitNames == {"middle", "bogus"}
SolverNames == {"lbfgs", "bogus"}
RecommenderNames == {"latent", "bogus"}

\* one record of the structured array info
NaNRec == [x |-> NaN, y |-> NaN, xbest |-> NaN, fbest |-> NaN]

VARIABLES
    pc,          \* the statement solve_bayesopt is at
    T,           \* parameter T
    policy, init, solver, recommender,   \* the four name parameters
    model0,      \* parameter model as passed: None or [ndata, data]
    hasGetF,     \* hasattr(f, 'get_f')
    hasCallback, \* callback is not None
    model,       \* None, or [ndata, data]: the count the model reports and
                 \* the observations add_data ingested during this call
    X, Y,        \* the seed points and their observed values
    info,        \* the trace; empty before its allocation
    start,       \* the first value of xrange(model.ndata, T)
    i,           \* the loop variable
    index, x, y, xbest, fbest,   \* the locals of the loop body
    calls,       \* how often each external callable has been called
    evalLog,     \* the points f has been called at, in call order
    writes,      \* per trace slot, how often it was assigned after info[:] = nan
    cbArg,       \* the arguments of the last callback invocation
    result,      \* NoResult, or <<the returned trace>>
    err,         \* NoError, or the exception that left the call
    \* ---- _make_dict
    rpc,         \* the statement _make_dict is at
    exported,    \* module.__all__
    lstrip, rstrip,
    gi,          \* position of the generator in module.__all__
    regdict      \* the dict under construction: a function key -> callable

svars == <<pc, T, policy, init, solver, recommender, model0, hasGetF,
           hasCallback, model, X, Y, info, start, i, index, x, y, xbest,
           fbest, calls, evalLog, writes, cbArg, result, err>>
rvars == <<rpc, exported, lstrip, rstrip, gi, regdict>>
vars == <<svars, rvars>>

Callables == {"init", "f", "policy", "solver", "callback", "add_data",
              "recommender", "get_f"}

\* ---------------------------------------------------------------- helpers
\* Raise as it would be if the trace written so far were handed back
RaisePartial(e) ==
    /\ pc' = "failed"
    /\ err' = e
    /\ result' = <<info>>

\* an exception leaves solve_bayesopt: nothing is returned
Raise(e) ==
    /\ pc' = "failed"
    /\ err' = e
    /\ result' = NoResult

Called(c) == calls' = [calls EXCEPT ![c] = @ + 1]

\* AddData as it would be if the new observations replaced the old ones
AddDataReplacing(m, xs, ys) ==
    [ndata |-> Len(xs),
     data  |-> [j \in 1..Len(xs) |-> <<xs[j], ys[j]>>]]

\* model.add_data(xs, ys): the model reports len(xs) more observations
AddData(m, xs, ys) ==
    [ndata |-> m.ndata + Len(xs),
     data  |-> m.data \o [j \in 1..Len(xs) |-> <<xs[j], ys[j]>>]]

\* np.zeros(n, ...)
Zeros(n) == [j \in 1..n |-> [x |-> Zero, y |-> Zero, xbest |-> Zero, fbest |-> Zero]]

\* FilledNaN as it would be without the statement info[:] = np.nan
FillSkipped(tr) == tr

\* info[:] = np.nan
FilledNaN(tr) == [j \in 1..Len(tr) |-> NaNRec]

\* info['x'][:len(X)] = X; info['y'][:len(Y)] = Y
Backfilled(tr, xs, ys) ==
    [j \in 1..Len(tr) |->
        IF j <= Len(xs) THEN [tr[j] EXCEPT !.x = xs[j], !.y = ys[j]]
        ELSE tr[j]]

\* Prefix as it would be for info[:n + 1]
PrefixThrough(tr, n) ==
    SubSeq(tr, 1, IF n + 1 < Len(tr) THEN n + 1 ELSE Len(tr))

\* info[:n]
Prefix(tr, n) == SubSeq(tr, 1, IF n < Len(tr) THEN n ELSE Len(tr))

\* ------------------------------------------------------------------- Init
RegIdle ==
    /\ rpc = "idle"
    /\ exported = <<>>
    /\ lstrip = <<>>
    /\ rstrip = <<>>
    /\ gi = 0
    /\ regdict = <<>>

Init ==
    /\ pc = "resolve"
    /\ T \in 0..MaxT
    /\ policy \in PolicyNames
    /\ init \in InitNames
    /\ solver \in SolverNames
    /\ recommender \in RecommenderNames
    /\ model0 \in {None} \cup {[ndata |-> n, data |-> <<>>] : n \in 0..MaxN0}
    /\ hasGetF \in BOOLEAN
    /\ hasCallback \in BOOLEAN
    /\ model = model0
    /\ X = <<>>
    /\ Y = <<>>
    /\ info = <<>>
    /\ start = 0
    /\ i = 0
    /\ index = None
    /\ x = NaN
    /\ y = NaN
    /\ xbest = NaN
    /\ fbest = NaN
    /\ calls = [c \in Callables |-> 0]
    /\ evalLog = <<>>
    /\ writes = <<>>
    /\ cbArg = None
    /\ result = NoResult
    /\ err = NoError
    /\ RegIdle

\* ---------------------------------------------------------------- actions
\* Resolve as it would be if the recommender were looked up only when it
\* is first needed
ResolveLazy ==
    /\ pc = "resolve"
    /\ IF /\ policy \in POLICIES
          /\ init \in INITIALIZERS
          /\ solver \in SOLVERS
       THEN /\ pc' = "init"
            /\ UNCHANGED <<err, result>>
       ELSE Raise("KeyError")
    /\ UNCHANGED <<evalLog, writes>>
    /\ UNCHANGED <<start, T, policy, init, solver, recommender, model0,
                   hasGetF, hasCallback, model, X, Y, info, i, index, x, y,
                   xbest, fbest, calls, cbArg>>
    /\ UNCHANGED rvars

\* lines 74-77: the four registry lookups, in order
Resolve ==
    /\ pc = "resolve"
    /\ IF /\ policy \in POLICIES
          /\ init \in INITIALIZERS
          /\ solver \in SOLVERS
          /\ recommender \in RECOMMENDERS
       THEN /\ pc' = "init"
            /\ UNCHANGED <<err, result>>
       ELSE Raise("KeyError")
    /\ UNCHANGED <<evalLog, writes>>
    /\ UNCHANGED <<start, T, policy, init, solver, recommender, model0, hasGetF,
                   hasCallback, model, X, Y, info, i, index, x, y, xbest,
                   fbest, calls, cbArg>>
    /\ UNCHANGED rvars

\* line 80: X = init(bounds)
CallInit ==
    /\ pc = "init"
    /\ Called("init")
    /\ \/ \E k \in 1..MaxK : \E xs \in [1..k -> Points] :
            /\ X' = xs
            /\ pc' = "evalseed"
            /\ UNCHANGED <<err, result>>
       \/ /\ Raise("init")
          /\ UNCHANGED X
    /\ UNCHANGED <<evalLog, writes>>
    /\ UNCHANGED <<start, T, policy, init, solver, recommender, model0, hasGetF,
                   hasCallback, model, Y, info, i, index, x, y, xbest,
                   fbest, cbArg>>
    /\ UNCHANGED rvars

\* EvalSeed as it would be if the value of a point evaluated before were
\* taken from a cache
EvalSeedCached ==
    /\ pc = "evalseed"
    /\ Len(Y) < Len(X)
    /\ LET n == Len(Y) + 1
           seen == {m \in 1..Len(Y) : X[m] = X[n]}
       IN  IF seen # {}
           THEN /\ Y' = Append(Y, Y[CHOOSE m \in seen : TRUE])
                /\ UNCHANGED <<calls, evalLog, pc, err, result>>
           ELSE /\ Called("f")
                /\ evalLog' = Append(evalLog, X[n])
                /\ \/ /\ Y' = Append(Y, F(X[n]))
                      /\ UNCHANGED <<pc, err, result>>
                   \/ /\ Raise("f")
                      /\ UNCHANGED Y
    /\ UNCHANGED <<writes>>
    /\ UNCHANGED <<start, T, policy, init, solver, recommender, model0,
                   hasGetF, hasCallback, model, X, info, i, index, x, y,
                   xbest, fbest, cbArg>>
    /\ UNCHANGED rvars

\* line 81: Y = [f(x) for x in X], one evaluation per step
EvalSeed ==
    /\ pc = "evalseed"
    /\ Len(Y) < Len(X)
    /\ Called("f")
    /\ evalLog' = Append(evalLog, X[Len(Y) + 1])
    /\ \/ /\ Y' = Append(Y, F(X[Len(Y) + 1]))
          /\ UNCHANGED <<pc, err, result>>
       \/ /\ Raise("f")
          /\ UNCHANGED Y
    /\ UNCHANGED <<writes>>
    /\ UNCHANGED <<start, T, policy, init, solver, recommender, model0, hasGetF,
                   hasCallback, model, X, info, i, index, x, y, xbest,
                   fbest, cbArg>>
    /\ UNCHANGED rvars

\* lines 83-99: the default model, built only when the caller passed none
MakeModel ==
    /\ pc = "evalseed"
    /\ Len(Y) = Len(X)
    /\ model' = IF model = None THEN [ndata |-> 0, data |-> <<>>] ELSE model
    /\ pc' = "ingestseed"
    /\ UNCHANGED <<evalLog, writes>>
    /\ UNCHANGED <<start, T, policy, init, solver, recommender, model0, hasGetF,
                   hasCallback, X, Y, info, i, index, x, y, xbest, fbest,
                   calls, cbArg, result, err>>
    /\ UNCHANGED rvars

\* line 102: model.add_data(X, Y)
IngestSeed ==
    /\ pc = "ingestseed"
    /\ Called("add_data")
    /\ model' = AddData(model, X, Y)
    /\ pc' = "alloc"
    /\ UNCHANGED <<evalLog, writes>>
    /\ UNCHANGED <<start, T, policy, init, solver, recommender, model0, hasGetF,
                   hasCallback, X, Y, info, i, index, x, y, xbest, fbest,
                   cbArg, result, err>>
    /\ UNCHANGED rvars

\* lines 105-111: info = np.zeros(T, ...); info[:] = np.nan
Alloc ==
    /\ pc = "alloc"
    /\ info' = FilledNaN(Zeros(T))
    /\ writes' = [j \in 1..T |-> 0]
    /\ pc' = "backfill"
    /\ UNCHANGED <<evalLog>>
    /\ UNCHANGED <<start, T, policy, init, solver, recommender, model0, hasGetF,
                   hasCallback, model, X, Y, i, index, x, y, xbest, fbest,
                   calls, cbArg, result, err>>
    /\ UNCHANGED rvars

\* lines 112-113: the seed batch is copied into the first len(X) slots.
\* The target info[...][:len(X)] has min(len(X), T) rows; numpy broadcasts
\* the batch into it when the lengths agree or the batch has one row, and
\* raises ValueError otherwise.
Backfill ==
    /\ pc = "backfill"
    /\ IF Len(X) <= T
       THEN /\ info' = Backfilled(info, X, Y)
            /\ writes' = [j \in 1..T |->
                             IF j <= Len(X) THEN writes[j] + 1 ELSE writes[j]]
            /\ pc' = "loopinit"
            /\ UNCHANGED <<err, result>>
       ELSE IF Len(X) = 1
       THEN /\ pc' = "loopinit"
            /\ UNCHANGED <<info, writes, err, result>>
       ELSE /\ Raise("ValueError")
            /\ UNCHANGED <<info, writes>>
    /\ UNCHANGED <<evalLog>>
    /\ UNCHANGED <<start, T, policy, init, solver, recommender, model0, hasGetF,
                   hasCallback, model, X, Y, i, index, x, y, xbest, fbest,
                   calls, cbArg>>
    /\ UNCHANGED rvars

\* LoopInit as it would be for xrange(T)
LoopInitZero ==
    /\ pc = "loopinit"
    /\ start' = 0
    /\ i' = 0
    /\ pc' = "looptest"
    /\ UNCHANGED <<evalLog, writes>>
    /\ UNCHANGED <<T, policy, init, solver, recommender, model0, hasGetF,
                   hasCallback, model, X, Y, info, index, x, y, xbest, fbest,
                   calls, cbArg, result, err>>
    /\ UNCHANGED rvars

\* LoopInit as it would be for xrange(len(X), T)
LoopInitSeed ==
    /\ pc = "loopinit"
    /\ start' = Len(X)
    /\ i' = Len(X)
    /\ pc' = "looptest"
    /\ UNCHANGED <<evalLog, writes>>
    /\ UNCHANGED <<T, policy, init, solver, recommender, model0, hasGetF,
                   hasCallback, model, X, Y, info, index, x, y, xbest, fbest,
                   calls, cbArg, result, err>>
    /\ UNCHANGED rvars

\* line 115: xrange(model.ndata, T) is built once, from the count the model
\* reports after the seed ingest
LoopInit ==
    /\ pc = "loopinit"
    /\ start' = model.ndata
    /\ i' = model.ndata
    /\ pc' = "looptest"
    /\ UNCHANGED <<evalLog, writes>>
    /\ UNCHANGED <<T, policy, init, solver, recommender, model0, hasGetF,
                   hasCallback, model, X, Y, info, index, x, y, xbest, fbest,
                   calls, cbArg, result, err>>
    /\ UNCHANGED rvars

\* line 115: the next value of the range, or the end of the loop
LoopTest ==
    /\ pc = "looptest"
    /\ pc' = IF i < T THEN "policy" ELSE "return"
    /\ UNCHANGED <<evalLog, writes>>
    /\ UNCHANGED <<start, T, policy, init, solver, recommender, model0, hasGetF,
                   hasCallback, model, X, Y, info, i, index, x, y, xbest,
                   fbest, calls, cbArg, result, err>>
    /\ UNCHANGED rvars

\* line 117: index = policy(model)
CallPolicy ==
    /\ pc = "policy"
    /\ Called("policy")
    /\ \/ /\ index' = [ndata |-> model.ndata]
          /\ pc' = "solver"
          /\ UNCHANGED <<err, result>>
       \/ /\ Raise("policy")
          /\ UNCHANGED index
    /\ UNCHANGED <<evalLog, writes>>
    /\ UNCHANGED <<start, T, policy, init, solver, recommender, model0, hasGetF,
                   hasCallback, model, X, Y, info, i, x, y, xbest, fbest,
                   cbArg>>
    /\ UNCHANGED rvars

\* line 118: x, _ = solver(index, bounds, maximize=True)
CallSolver ==
    /\ pc = "solver"
    /\ Called("solver")
    /\ \/ \E p \in Points :
            /\ x' = p
            /\ pc' = "callback"
            /\ UNCHANGED <<err, result>>
       \/ /\ Raise("solver")
          /\ UNCHANGED x
    /\ UNCHANGED <<evalLog, writes>>
    /\ UNCHANGED <<start, T, policy, init, solver, recommender, model0, hasGetF,
                   hasCallback, model, X, Y, info, i, index, y, xbest, fbest,
                   cbArg>>
    /\ UNCHANGED rvars

\* lines 121-122: callback(info[:i], x, f, model, bounds, index)
CallCallback ==
    /\ pc = "callback"
    /\ IF hasCallback
       THEN /\ Called("callback")
            /\ cbArg' = [info |-> Prefix(info, i), x |-> x, i |-> i,
                         ndata |-> model.ndata, index |-> index,
                         evals |-> calls["f"], solved |-> calls["solver"]]
            /\ \/ /\ pc' = "eval"
                  /\ UNCHANGED <<err, result>>
               \/ Raise("callback")
       ELSE /\ pc' = "eval"
            /\ UNCHANGED <<calls, cbArg, err, result>>
    /\ UNCHANGED <<evalLog, writes>>
    /\ UNCHANGED <<start, T, policy, init, solver, recommender, model0, hasGetF,
                   hasCallback, model, X, Y, info, i, index, x, y, xbest,
                   fbest>>
    /\ UNCHANGED rvars

\* Eval as it would be if the recommender came right after the evaluation,
\* ahead of model.add_data
EvalThenRecommend ==
    /\ pc = "eval"
    /\ Called("f")
    /\ evalLog' = Append(evalLog, x)
    /\ \/ /\ y' = F(x)
          /\ pc' = "recommend"
          /\ UNCHANGED <<err, result>>
       \/ /\ Raise("f")
          /\ UNCHANGED y
    /\ UNCHANGED <<writes>>
    /\ UNCHANGED <<start, T, policy, init, solver, recommender, model0,
                   hasGetF, hasCallback, model, X, Y, info, i, index, x,
                   xbest, fbest, cbArg>>
    /\ UNCHANGED rvars

\* line 125: y = f(x)
Eval ==
    /\ pc = "eval"
    /\ Called("f")
    /\ evalLog' = Append(evalLog, x)
    /\ \/ /\ y' = F(x)
          /\ pc' = "ingest"
          /\ UNCHANGED <<err, result>>
       \/ /\ Raise("f")
          /\ UNCHANGED y
    /\ UNCHANGED <<writes>>
    /\ UNCHANGED <<start, T, policy, init, solver, recommender, model0, hasGetF,
                   hasCallback, model, X, Y, info, i, index, x, xbest, fbest,
                   cbArg>>
    /\ UNCHANGED rvars

\* Ingest as it would be if the observation were not given to the model
IngestUncounted ==
    /\ pc = "ingest"
    /\ pc' = "recommend"
    /\ UNCHANGED <<evalLog, writes>>
    /\ UNCHANGED <<start, T, policy, init, solver, recommender, model0,
                   hasGetF, hasCallback, model, X, Y, info, i, index, x, y,
                   xbest, fbest, calls, cbArg, result, err>>
    /\ UNCHANGED rvars

\* Ingest as it would be if the clean value of the point were ingested
IngestClean ==
    /\ pc = "ingest"
    /\ Called("add_data")
    /\ model' = AddData(model, <<x>>, <<GetF(x)>>)
    /\ pc' = "recommend"
    /\ UNCHANGED <<evalLog, writes>>
    /\ UNCHANGED <<start, T, policy, init, solver, recommender, model0,
                   hasGetF, hasCallback, X, Y, info, i, index, x, y, xbest,
                   fbest, cbArg, result, err>>
    /\ UNCHANGED rvars

\* line 126: model.add_data(x, y)
Ingest ==
    /\ pc = "ingest"
    /\ Called("add_data")
    /\ model' = AddData(model, <<x>>, <<y>>)
    /\ pc' = "recommend"
    /\ UNCHANGED <<evalLog, writes>>
    /\ UNCHANGED <<start, T, policy, init, solver, recommender, model0, hasGetF,
                   hasCallback, X, Y, info, i, index, x, y, xbest, fbest,
                   cbArg, result, err>>
    /\ UNCHANGED rvars

\* line 129: xbest = recommender(model, bounds)
CallRecommender ==
    /\ pc = "recommend"
    /\ Called("recommender")
    /\ \/ \E p \in Points :
            /\ xbest' = p
            /\ pc' = "oracle"
            /\ UNCHANGED <<err, result>>
       \/ /\ Raise("recommender")
          /\ UNCHANGED xbest
    /\ UNCHANGED <<evalLog, writes>>
    /\ UNCHANGED <<start, T, policy, init, solver, recommender, model0, hasGetF,
                   hasCallback, model, X, Y, info, i, index, x, y, fbest,
                   cbArg>>
    /\ UNCHANGED rvars

\* line 130: fbest = f.get_f(xbest[None])[0] if hasattr(f, 'get_f') else nan
Oracle ==
    /\ pc = "oracle"
    /\ IF hasGetF
       THEN /\ Called("get_f")
            /\ \/ /\ fbest' = GetF(xbest)
                  /\ pc' = "write"
                  /\ UNCHANGED <<err, result>>
               \/ /\ Raise("get_f")
                  /\ UNCHANGED fbest
       ELSE /\ fbest' = NaN
            /\ pc' = "write"
            /\ UNCHANGED <<calls, err, result>>
    /\ UNCHANGED <<evalLog, writes>>
    /\ UNCHANGED <<start, T, policy, init, solver, recommender, model0, hasGetF,
                   hasCallback, model, X, Y, info, i, index, x, y, xbest,
                   cbArg>>
    /\ UNCHANGED rvars

\* line 133: info[i] = (x, y, xbest, fbest), then the loop advances
Write ==
    /\ pc = "write"
    /\ info' = [info EXCEPT ![i + 1] =
                   [x |-> x, y |-> y, xbest |-> xbest, fbest |-> fbest]]
    /\ writes' = [writes EXCEPT ![i + 1] = @ + 1]
    /\ i' = i + 1
    /\ pc' = "looptest"
    /\ UNCHANGED <<evalLog>>
    /\ UNCHANGED <<start, T, policy, init, solver, recommender, model0, hasGetF,
                   hasCallback, model, X, Y, index, x, y, xbest, fbest,
                   calls, cbArg, result, err>>
    /\ UNCHANGED rvars

\* line 135: return info
Return ==
    /\ pc = "return"
    /\ result' = <<info>>
    /\ pc' = "done"
    /\ UNCHANGED <<evalLog, writes>>
    /\ UNCHANGED <<start, T, policy, init, solver, recommender, model0, hasGetF,
                   hasCallback, model, X, Y, info, i, index, x, y, xbest,
                   fbest, calls, cbArg, err>>
    /\ UNCHANGED rvars

Next ==
    \/ Resolve
    \/ CallInit
    \/ EvalSeed
    \/ MakeModel
    \/ IngestSeed
    \/ Alloc
    \/ Backfill
    \/ LoopInit
    \/ LoopTest
    \/ CallPolicy
    \/ CallSolver
    \/ CallCallback
    \/ Eval
    \/ Ingest
    \/ CallRecommender
    \/ Oracle
    \/ Write
    \/ Return

Spec == Init /\ [][Next]_vars

\* ------------------------------------------------------------ _make_dict
\* Names are sequences of one-character strings.
Chars == {"a", "A", "_"}

\* every name of 1..n characters
RECURSIVE NamesUpTo(_)
NamesUpTo(n) ==
    IF n = 0 THEN {}
    ELSE NamesUpTo(n - 1) \cup [1..n -> Chars]

\* the values module.__all__ may take: up to MaxNames exported names
Exports == UNION {[1..n -> NamesUpTo(MaxNameLen)] : n \in 0..MaxNames}

\* the values of the parameters lstrip and rstrip
LStrips == {<<>>, <<"a", "_">>}
RStrips == {<<>>, <<"_">>}

\* str.lower, one character
LowerChar(c) == IF c = "A" THEN "a" ELSE c

\* str.lower
Lower(s) == [j \in 1..Len(s) |-> LowerChar(s[j])]

\* s.startswith(p)
StartsWith(s, p) == Len(p) <= Len(s) /\ SubSeq(s, 1, Len(p)) = p

\* s.endswith(p)
EndsWith(s, p) ==
    Len(p) <= Len(s) /\ SubSeq(s, Len(s) - Len(p) + 1, Len(s)) = p

\* s[n:]
From(s, n) == SubSeq(s, n + 1, Len(s))

\* s[::-1]
Reversed(s) == [j \in 1..Len(s) |-> s[Len(s) + 1 - j]]

\* getattr(module, fname): the function the module exports under fname
Getattr(fname) == [function |-> fname]

\* Key as it would be if the name were lower-cased before stripping
KeyLowerFirst(fname, l, r) ==
    LET c == Lower(fname)
        a == IF StartsWith(c, l) THEN From(c, Len(l)) ELSE c
    IN  IF EndsWith(a, r) THEN Reversed(From(Reversed(a), Len(r))) ELSE a

\* lines 31-35: the key the generator yields for fname
Key(fname, l, r) ==
    LET a == IF StartsWith(fname, l) THEN From(fname, Len(l)) ELSE fname
        b == IF EndsWith(a, r)
             THEN Reversed(From(Reversed(a), Len(r)))
             ELSE a
    IN  Lower(b)

\* Put as it would be if the first pair of a key were kept
PutFirst(d, k, v) ==
    [kk \in DOMAIN d \cup {k} |-> IF kk \in DOMAIN d THEN d[kk] ELSE v]

\* dict(...) consuming one (key, value) pair: a later pair replaces an
\* earlier one with the same key
Put(d, k, v) == [kk \in DOMAIN d \cup {k} |-> IF kk = k THEN v ELSE d[kk]]

\* solve_bayesopt is not running
SolverIdle ==
    /\ pc = "idle"
    /\ T = 0
    /\ policy = "ei"
    /\ init = "middle"
    /\ solver = "lbfgs"
    /\ recommender = "latent"
    /\ model0 = None
    /\ hasGetF = FALSE
    /\ hasCallback = FALSE
    /\ model = None
    /\ X = <<>>
    /\ Y = <<>>
    /\ info = <<>>
    /\ start = 0
    /\ i = 0
    /\ index = None
    /\ x = NaN
    /\ y = NaN
    /\ xbest = NaN
    /\ fbest = NaN
    /\ calls = [c \in Callables |-> 0]
    /\ evalLog = <<>>
    /\ writes = <<>>
    /\ cbArg = None
    /\ result = NoResult
    /\ err = NoError

\* a call _make_dict(module, lstrip, rstrip)
RegInit ==
    /\ rpc = "generate"
    /\ exported \in Exports
    /\ lstrip \in LStrips
    /\ rstrip \in RStrips
    /\ gi = 0
    /\ regdict = <<>>
    /\ SolverIdle

\* lines 29-36 and the dict() of line 37 taking the pair: one exported name
RegGenerate ==
    /\ rpc = "generate"
    /\ gi < Len(exported)
    /\ LET fname == exported[gi + 1]
       IN  regdict' = Put(regdict, Key(fname, lstrip, rstrip), Getattr(fname))
    /\ gi' = gi + 1
    /\ UNCHANGED <<rpc, exported, lstrip, rstrip>>
    /\ UNCHANGED svars

\* line 37: the generator is exhausted and the dict is returned
RegReturn ==
    /\ rpc = "generate"
    /\ gi = Len(exported)
    /\ rpc' = "built"
    /\ UNCHANGED <<exported, lstrip, rstrip, gi, regdict>>
    /\ UNCHANGED svars

RegNext ==
    \/ RegGenerate
    \/ RegReturn

RegSpec == RegInit /\ [][RegNext]_vars

\* ================================================================ claims
\* the size k of the initializer batch
K == Len(X)

\* a trace slot in the "not yet available" state
Pending(slot) == slot = NaNRec

\* solve_bayesopt has returned; the returned trace is Returned
Done == pc = "done"
Returned == result[1]

\* the caller supplied a model that already reports n observations
PreSeeded(n) == model0 # None /\ model0.ndata = n

\* C1: a successful call returns a trace of length exactly T in which no
\* slot is still "not yet available", with or without a pre-seeded model.
C1_FullyPopulated ==
    Done =>
        /\ Len(Returned) = T
        /\ \A j \in 1..T : ~Pending(Returned[j])

\* C2: in the returned trace, slots [0, k) hold the seed point and its
\* observed value with both recommendation fields unknown, and slots [k, T)
\* have all four fields populated when the objective has get_f.
C2_TraceLayout ==
    Done =>
        \A j \in 1..T :
            /\ j <= K =>
                  /\ Returned[j].x = X[j]
                  /\ Returned[j].y = Y[j]
                  /\ Returned[j].xbest = NaN
                  /\ Returned[j].fbest = NaN
            /\ (j > K /\ hasGetF) =>
                  /\ Returned[j].x # NaN
                  /\ Returned[j].y # NaN
                  /\ Returned[j].xbest # NaN
                  /\ Returned[j].fbest # NaN

\* C3: after a successful run whose main loop runs the iterations k..T, the
\* model reports (size of the seed batch) + (T - k) observations.
C3_ObservationCount ==
    (Done /\ start = K /\ K <= T) => model.ndata = K + (T - K)

\* C3 witness: a returned run whose loop started at k and ran at least twice
C3_Witness ==
    /\ Done
    /\ start = K
    /\ K = 2
    /\ T >= K + 2
    /\ calls["add_data"] = 1 + (T - K)

\* C4: with a model that already reports 3 observations, a seed batch of 2
\* and T > 5, the loop counts from 5, the seed fills slots [0, 2) and the
\* main loop fills slots [2, T).
C4_PreSeededScenario ==
    (PreSeeded(3) /\ K = 2 /\ T > 5) =>
        /\ pc \in {"looptest", "policy"} => start = 5
        /\ Done =>
              /\ start = 5
              /\ \A j \in 1..2 :
                    Returned[j].x = X[j] /\ Returned[j].y = Y[j]
              /\ \A j \in 3..T : ~Pending(Returned[j])

\* one of the four names is no key of its registry
UnknownName ==
    \/ policy \notin POLICIES
    \/ init \notin INITIALIZERS
    \/ solver \notin SOLVERS
    \/ recommender \notin RECOMMENDERS

\* C5: with an unknown component name the call fails with the lookup's
\* error before the initializer is called: no objective evaluation and no
\* ingest into a caller-supplied model has happened.
C5_FailFast ==
    (UnknownName /\ pc # "idle") =>
        /\ pc \in {"resolve", "failed"}
        /\ pc = "failed" => err = "KeyError"
        /\ \A c \in Callables : calls[c] = 0
        /\ model = model0
        /\ result = NoResult

\* C5 witness: the last of the four lookups failed, a model was supplied
C5_Witness ==
    /\ pc = "failed"
    /\ err = "KeyError"
    /\ policy \in POLICIES
    /\ init \in INITIALIZERS
    /\ solver \in SOLVERS
    /\ recommender \notin RECOMMENDERS
    /\ PreSeeded(1)

\* C6: a failure raised by a component or the objective is fatal: it reaches
\* the caller as raised, no trace is returned, and nothing runs after it
\* (no retry, no further evaluation, ingest or trace write).
C6_Fatal ==
    /\ [](err # NoError => (pc = "failed" /\ result = NoResult))
    /\ [](pc = "failed" => err # NoError)
    /\ [][pc = "failed" => UNCHANGED vars]_vars

\* C6 witness: the recommender failed in the second iteration of the loop
C6_Witness ==
    /\ pc = "failed"
    /\ err = "recommender"
    /\ calls["recommender"] = 2
    /\ calls["f"] = K + 2
    /\ ~Pending(info[start + 1])

\* two different exported names have the same key
Collision ==
    \E a, b \in 1..Len(exported) :
        /\ exported[a] # exported[b]
        /\ Key(exported[a], lstrip, rstrip) = Key(exported[b], lstrip, rstrip)

\* the position in module.__all__ of the last name whose key is k
LastWith(k) ==
    CHOOSE a \in 1..Len(exported) :
        /\ Key(exported[a], lstrip, rstrip) = k
        /\ \A b \in (a + 1)..Len(exported) :
              Key(exported[b], lstrip, rstrip) # k

WithoutPrefix(s, p) ==
    LET rests == {t \in {SubSeq(s, j, Len(s)) : j \in 1..(Len(s) + 1)} :
                     s = p \o t}
    IN  IF rests = {} THEN s ELSE CHOOSE t \in rests : TRUE

\* s with the suffix p removed when s ends with p
WithoutSuffix(s, p) ==
    LET rests == {t \in {SubSeq(s, 1, j) : j \in 0..Len(s)} : s = t \o p}
    IN  IF rests = {} THEN s ELSE CHOOSE t \in rests : TRUE

\* prefix removed, then suffix removed, then lower-cased
Normalized(name, l, r) ==
    LET t == WithoutSuffix(WithoutPrefix(name, l), r)
    IN  [j \in 1..Len(t) |-> IF t[j] = "A" THEN "a" ELSE t[j]]

\* the names the generator has gone through
Seen == {exported[a] : a \in 1..gi}

Initializing ==
    pc \in {"resolve", "init", "evalseed", "ingestseed", "alloc", "backfill",
            "loopinit"}

\* the statements of one iteration after the callback
AfterCallback == pc \in {"eval", "ingest", "recommend", "oracle", "write"}

\* C10: a supplied callback is invoked once per main-loop iteration and
\* never during initialization; in iteration i it runs after the solver
\* chose the point and before the objective is evaluated there, and the
\* trace it gets is the prefix of slots [0, i), without the slot of the
\* point chosen in iteration i.
C10_Callback ==
    /\ Initializing => (calls["callback"] = 0 /\ cbArg = None)
    /\ ~hasCallback => (calls["callback"] = 0 /\ cbArg = None)
    /\ (hasCallback /\ pc \in {"looptest", "policy", "solver", "callback",
                               "return", "done"}) =>
          calls["callback"] = i - start
    /\ (hasCallback /\ AfterCallback) =>
          /\ calls["callback"] = (i - start) + 1
          /\ cbArg.solved = calls["callback"]
          /\ cbArg.x = x
          /\ cbArg.evals = K + (i - start)
          /\ Len(cbArg.info) = i
          /\ cbArg.info = SubSeq(info, 1, i)
          /\ Pending(info[i + 1])
    /\ (hasCallback /\ pc = "eval") => calls["f"] = cbArg.evals

\* C10 witness: the second callback of a run, about to evaluate the point
C10_Witness ==
    /\ hasCallback
    /\ pc = "eval"
    /\ calls["callback"] = 2
    /\ Len(cbArg.info) = K + 1
    /\ ~Pending(cbArg.info[K + 1])

\* the statements after the seed backfill has succeeded
PastBackfill ==
    pc \in {"loopinit", "looptest", "policy", "solver", "callback", "eval",
            "ingest", "recommend", "oracle", "write", "return", "done"}

\* C11: when the initializer returns more points than the horizon (k > T)
\* the call fails instead of going on past the seed backfill, and nothing is
\* written past the end of the trace.
C11_OversizedBatchFails ==
    K > T =>
        /\ ~PastBackfill
        /\ Len(info) <= T

\* the iterations of the main loop that have been completed
Completed == i - start

\* how many statements of the running iteration are done:
\* policy, solver, callback, f, add_data, recommender, get_f
Stage ==
    CASE pc = "solver"    -> 1
      [] pc = "callback"  -> 2
      [] pc = "eval"      -> 3
      [] pc = "ingest"    -> 4
      [] pc = "recommend" -> 5
      [] pc = "oracle"    -> 6
      [] pc = "write"     -> 7
      [] OTHER            -> 0

\* the calls a statement has made when the iteration is at Stage: one per
\* completed iteration, and one more once the statement is behind
Made(statement) == Completed + (IF Stage >= statement THEN 1 ELSE 0)

InLoop ==
    pc \in {"looptest", "policy", "solver", "callback", "eval", "ingest",
            "recommend", "oracle", "write"}

\* C12: an iteration runs policy, solver, callback, objective, single-point
\* ingest, recommender, clean oracle and trace write strictly in this
\* order; the recommender sees a model that already holds the observation
\* of its own iteration, and the policy sees exactly the observations made
\* before its iteration.
C12_StepOrder ==
    InLoop =>
        /\ calls["policy"] = Made(1)
        /\ calls["solver"] = Made(2)
        /\ calls["callback"] = IF hasCallback THEN Made(3) ELSE 0
        /\ calls["f"] = K + Made(4)
        /\ calls["add_data"] = 1 + Made(5)
        /\ calls["recommender"] = Made(6)
        /\ calls["get_f"] = IF hasGetF THEN Made(7) ELSE 0
        /\ i < T => (writes[i + 1] = 0 /\ Pending(info[i + 1]))
        /\ Len(model.data) = K + Made(5)
        /\ Stage >= 1 => index.ndata = start + Completed
        /\ Stage >= 4 => y = F(x)
        /\ Stage >= 5 => model.data[Len(model.data)] = <<x, y>>
        /\ Stage = 7 => (fbest = IF hasGetF THEN GetF(xbest) ELSE NaN)

\* C12 witness: the recommender is about to be called in the second
\* iteration, on a model that holds that iteration's observation
C12_Witness ==
    /\ pc = "recommend"
    /\ Completed = 1
    /\ hasCallback
    /\ model.ndata = start + 2
    /\ model.data[K + 2] = <<x, y>>

\* the count the model reported when solve_bayesopt was called
InitialCount == IF model0 = None THEN 0 ELSE model0.ndata

\* C13: during a run the model changes only through add_data, and what is
\* ingested is, in order, the objective's observed value at each seed point
\* and at each solver-chosen point; the recommended point and the clean
\* value go to the trace only.
C13_OnlyObservationsIngested ==
    /\ [](model # None =>
            /\ model.ndata = InitialCount + Len(model.data)
            /\ Len(model.data) <= Len(evalLog)
            /\ \A j \in 1..Len(model.data) :
                  model.data[j] = <<evalLog[j], F(evalLog[j])>>)
    /\ [][model' # model =>
            \/ model = None /\ pc = "evalseed" /\ model'.data = <<>>
            \/ calls'["add_data"] = calls["add_data"] + 1]_vars

\* C13 witness: an iteration about to write a recommended point and a clean
\* value, neither of which is in the model
C13_Witness ==
    /\ pc = "write"
    /\ hasGetF
    /\ Completed = 1
    /\ xbest # x
    /\ \A j \in 1..Len(model.data) : model.data[j][1] # xbest
    /\ model.data[Len(model.data)] = <<x, y>>

\* the point evaluated in the n-th iteration of the main loop: the one in
\* the slot that iteration wrote, or the local x while it is running
LoopPoint(n) == IF n <= Completed THEN info[start + n].x ELSE x

\* C14: the objective is evaluated once per seed point, in the
\* initializer's order and before any ingest, then once per main-loop
\* iteration at the solver's point; nothing is cached or retried, so a
\* returned run has made exactly k + (iterations) evaluations.
C14_Evaluations ==
    /\ calls["f"] = Len(evalLog)
    /\ pc = "evalseed" =>
          /\ evalLog = SubSeq(X, 1, Len(Y))
          /\ \A j \in 1..Len(Y) : Y[j] = F(X[j])
          /\ calls["add_data"] = 0
    /\ calls["add_data"] >= 1 => Len(evalLog) >= K
    /\ (InLoop \/ pc \in {"return", "done"}) =>
          /\ SubSeq(evalLog, 1, K) = X
          /\ \A n \in 1..(Len(evalLog) - K) : evalLog[K + n] = LoopPoint(n)
    /\ Done =>
          /\ Len(evalLog) = K + Completed
          /\ calls["policy"] = Completed

\* C14 witness: a returned run that evaluated the same point twice in the
\* seed batch and twice in the loop
C14_Witness ==
    /\ Done
    /\ K = 2
    /\ X[1] = X[2]
    /\ Completed = 2
    /\ evalLog[K + 1] = evalLog[K + 2]
    /\ calls["f"] = 4

\* C15: trace entries are immutable once written: after the allocation
\* every slot is assigned at most once, by the seed backfill or by one
\* iteration of the main loop, and keeps its content from then on.
C15_WrittenOnce ==
    /\ [](\A j \in 1..Len(writes) : writes[j] <= 1)
    /\ [][\A j \in 1..Len(writes) :
            writes[j] >= 1 => (info'[j] = info[j] /\ writes'[j] = writes[j])]_vars

\* C15 witness: a returned trace with seed slots and loop slots, each
\* assigned once
C15_Witness ==
    /\ Done
    /\ K = 2
    /\ T >= 4
    /\ start = K
    /\ \A j \in 1..T : writes[j] = 1

\* every slot of the trace tr that was never assigned holds NaN in all
\* four fields
UnwrittenAreNaN(tr) ==
    \A j \in 1..Len(tr) : writes[j] = 0 => tr[j] = NaNRec

\* C16: whenever the trace is seen outside solve_bayesopt (by a callback or
\* as the returned value) every slot that neither the seed backfill nor a
\* main-loop iteration has written holds the "not yet available" marker in
\* all four fields, never zero.
C16_UnwrittenMarked ==
    /\ Done => UnwrittenAreNaN(Returned)
    /\ cbArg # None => UnwrittenAreNaN(cbArg.info)

\* C16 witness: a callback and then the caller see a slot that was never
\* written
C16_Witness ==
    /\ Done
    /\ calls["callback"] >= 1
    /\ writes[K + 1] = 0
    /\ cbArg.info[K + 1] = NaNRec
    /\ Returned[K + 1] = NaNRec

\* the exception that left the call was raised by a component, the
\* callback or the objective
ComponentRaised ==
    err \in {"init", "f", "policy", "solver", "callback", "recommender",
             "get_f"}

\* max(0, T - n) for n the count the model reports after the seed ingest
Iterations == IF T > start THEN T - start ELSE 0

\* C17: with components and an objective that always return, the run ends
\* by returning the trace after exactly max(0, T - n) iterations; when
\* n >= T no policy, solver, callback or recommender call is made and the
\* returned trace holds only the seed backfill.
C17_ReturnsAfterIterations ==
    (~UnknownName /\ pc # "idle") =>
        /\ pc = "failed" => ComponentRaised
        /\ Done =>
              /\ Completed = Iterations
              /\ calls["policy"] = Iterations
              /\ start >= T =>
                    /\ calls["policy"] = 0
                    /\ calls["solver"] = 0
                    /\ calls["callback"] = 0
                    /\ calls["recommender"] = 0
                    /\ Returned = Backfilled(FilledNaN(Zeros(T)), X, Y)

\* C18: at the start of every main-loop iteration, and up to its ingest,
\* the loop variable i (the slot the iteration writes) equals the count the
\* model reports; after the ingest the model reports i + 1, so the slot
\* written is the index of the observation the iteration added.
C18_IndexIsCount ==
    /\ pc \in {"looptest", "policy", "solver", "callback", "eval", "ingest"}
          => i = model.ndata
    /\ pc \in {"recommend", "oracle", "write"} => model.ndata = i + 1

\* C18 witness: the third iteration starts on a pre-seeded model
C18_Witness ==
    /\ pc = "policy"
    /\ PreSeeded(2)
    /\ Completed = 2
    /\ i = model.ndata
    /\ i = 2 + K + 2

\* C19: an aborted run does not roll the model back: when the call fails
\* after the seed ingest, a caller-supplied model still holds the seed
\* batch and one observation per completed single-point ingest, so it
\* reports more observations than before the call.
C19_NoRollback ==
    (pc = "failed" /\ model0 # None /\ calls["add_data"] >= 1) =>
        /\ model.ndata = model0.ndata + K + (calls["add_data"] - 1)
        /\ Len(model.data) = K + (calls["add_data"] - 1)
        /\ SubSeq(model.data, 1, K) = [j \in 1..K |-> <<X[j], Y[j]>>]
        /\ model.ndata > model0.ndata

\* C19 witness: the solver fails in the second iteration; the supplied
\* model keeps the seed batch and the first iteration's observation
C19_Witness ==
    /\ pc = "failed"
    /\ err = "solver"
    /\ PreSeeded(1)
    /\ K = 2
    /\ Completed = 1
    /\ model.ndata = 4

=============================================================================
